---- MODULE Spec2Model ----
(***************************************************************************)
(* Model of src/app.py, the Streamlit script "Forecast de Demanda".        *)
(*                                                                         *)
(* Streamlit executes the script from its first to its last line on every  *)
(* page render, in a module namespace created for that run.  One render is *)
(* modelled as a walk of pc through the five sections of the script:       *)
(*   load (41-57) -> validate (62-66) -> setup (71-82) -> loop (84-113,    *)
(*   one iteration per step) -> export (118-129).                          *)
(* A render ends in "done" (last line reached), "stopped" (st.stop()) or   *)
(* "exception" (an uncaught Python exception, which Streamlit shows on the *)
(* page).  Rerun starts the next render.                                   *)
(*                                                                         *)
(* The calls into pandas, Prophet and Streamlit are modelled by what the   *)
(* called function does with the arguments the script passes.              *)
(***************************************************************************)
EXTENDS Integers, Sequences, FiniteSets, TLC

VARIABLES
    pc,              \* position of the running script
    uploaded_file,   \* line 21: the uploader's value, None or a file
    df,              \* lines 50/52/56: the loaded table, or unbound
    periods,         \* line 72
    seasonality_mode,\* line 73
    skus,            \* line 78
    i,               \* line 84: loop index (1-based here)
    all_forecasts,   \* line 79
    out,             \* what the render has put on the page, in order
    calls,           \* calls made into pandas/Prophet and column tests, in order
    fits,            \* the argument of every m.fit call, in order
    displayed,       \* the tables given to st.dataframe (line 113), in order
    download,        \* the artifact handed to st.download_button (line 122)
    ref              \* observer: inputs and outcome of one earlier render

vars == <<pc, uploaded_file, df, periods, seasonality_mode, skus, i,
          all_forecasts, out, calls, fits, displayed, download, ref>>

----------------------------------------------------------------------------
(* Program constants *)

MAX_SIZE_MB == 5

BytesPerMB == 1024 * 1024

min_value == 7

max_value == 365

required_cols_swapped == <<"fecha", "sku", "demanda_real">>

required_cols_two == <<"sku", "demanda_real">>

required_cols == <<"sku", "fecha", "demanda_real">>

SeasonalityModes == {"additive", "multiplicative"}

(* Bounds of the model *)

MaxRows == 4

PeriodsSpan == 1

----------------------------------------------------------------------------
(* Input domains *)

Skus == {"A", "B"}

Days == {1, 2}

Demands == {5}

LimitBytes == MAX_SIZE_MB * BytesPerMB

Sizes == {LimitBytes - 1, LimitBytes, LimitBytes + 1, 6 * BytesPerMB}

Extensions == {"csv", "xlsx"}

NoFile == [present |-> FALSE, ext |-> "", size |-> 0]

Uploads == {NoFile} \cup [present : {TRUE}, ext : Extensions, size : Sizes]

PeriodChoices == {p \in min_value..(min_value + PeriodsSpan) : p <= max_value}

Rows == [sku : Skus, fecha : Days, demanda_real : Demands]

SeqsUpTo(S, n) == UNION {[1..k -> S] : k \in 0..n}

\* The columns a data file is documented to need (lines 32-34); a file may
\* lack any of them.
RequiredSet == {"sku", "fecha", "demanda_real"}

\* A row of a table that lacks some columns: the absent cells are blank.
Blank(row, cols) ==
    [sku |-> IF "sku" \in cols THEN row.sku ELSE "",
     fecha |-> IF "fecha" \in cols THEN row.fecha ELSE 0,
     demanda_real |-> IF "demanda_real" \in cols THEN row.demanda_real ELSE 0]

NoDf == [bound |-> FALSE, cols |-> {}, rows |-> <<>>]

ValidTables ==
    {[bound |-> TRUE, cols |-> RequiredSet, rows |-> r] : r \in SeqsUpTo(Rows, MaxRows)}

InvalidTables ==
    UNION {{[bound |-> TRUE, cols |-> c, rows |-> r] :
                r \in {<<>>} \cup {<<Blank(row, c)>> : row \in Rows}} :
           c \in (SUBSET RequiredSet) \ {RequiredSet}}

Tables == ValidTables \cup InvalidTables

NoRef == [set |-> FALSE, df |-> NoDf, periods |-> 0, mode |-> "", tables |-> <<>>]

----------------------------------------------------------------------------
(* Helpers *)

Event(kind, arg) == [kind |-> kind, arg |-> arg]

Call(fn, arg) == [fn |-> fn, arg |-> arg]

Range(s) == {s[k] : k \in 1..Len(s)}

Min(S) == CHOOSE x \in S : \A y \in S : x <= y

Max(S) == CHOOSE x \in S : \A y \in S : x >= y

RECURSIVE SortSet(_)
SortSet(S) == IF S = {} THEN <<>> ELSE <<Min(S)>> \o SortSet(S \ {Min(S)})

RECURSIVE Flatten(_)
Flatten(ss) == IF ss = <<>> THEN <<>> ELSE Head(ss) \o Flatten(Tail(ss))

----------------------------------------------------------------------------
(* pandas *)

\* The distinct values in order of last appearance.
UniqueLast(s) ==
    LET F[k \in 0..Len(s)] ==
            IF k = 0 THEN <<>>
            ELSE IF \E j \in (k + 1)..Len(s) : s[j] = s[k] THEN F[k - 1]
                 ELSE Append(F[k - 1], s[k])
    IN F[Len(s)]

\* Series.unique(): the distinct values in order of first appearance.
Unique(s) ==
    LET F[k \in 0..Len(s)] ==
            IF k = 0 THEN <<>>
            ELSE IF \E j \in 1..(k - 1) : s[j] = s[k] THEN F[k - 1]
                 ELSE Append(F[k - 1], s[k])
    IN F[Len(s)]

Column(table, name) ==
    [k \in 1..Len(table.rows) |->
        CASE name = "sku" -> table.rows[k].sku
          [] OTHER -> ""]

\* df[df['sku'] == sku]: the rows of that sku, in table order.
df_sku_all(table, sku) == table.rows

df_sku_of(table, sku) == SelectSeq(table.rows, LAMBDA r : r.sku = sku)

\* pd.to_datetime on a date cell: dates are kept as day ordinals.
to_datetime(fecha) == fecha

\* df_sku[['ds','y']] after lines 89-90.
ds_y(rows) == [k \in 1..Len(rows) |-> [ds |-> to_datetime(rows[k].fecha),
                                       y |-> rows[k].demanda_real]]

\* DataFrame.tail(n): the last n rows (all of them when there are fewer).
tail_short(s, n) ==
    SubSeq(s, Len(s) - (IF n - 1 < Len(s) THEN n - 1 ELSE Len(s)) + 1, Len(s))

tail(s, n) == SubSeq(s, Len(s) - (IF n < Len(s) THEN n ELSE Len(s)) + 1, Len(s))

\* pd.concat(list): the rows of every frame, in list order.
concat_tail(frames) == Flatten(Tail(frames))

concat(frames) == Flatten(frames)

forecast_columns == <<"ds", "yhat", "yhat_lower", "yhat_upper", "sku">>

\* DataFrame.to_excel(buffer, index=False): a header line, then one line per row.
to_excel(rows) == [offered |-> TRUE, header |-> forecast_columns, rows |-> rows]

NoDownload == [offered |-> FALSE, header |-> <<>>, rows |-> <<>>]

----------------------------------------------------------------------------
(* Prophet *)

\* Prophet.fit refuses a history with fewer than two rows.
FitRaises(hist) == Len(hist) < 2

\* The fitted model: the history it was fitted to, the distinct history
\* dates in increasing order, and the seasonality mode.
Fit(hist, mode) ==
    [history |-> hist,
     history_dates |-> SortSet({hist[k].ds : k \in 1..Len(hist)}),
     mode |-> mode]

make_future_inclusive(m, n) ==
    m.history_dates \o [k \in 1..(n - 1) |-> Max(Range(m.history_dates)) + k]

\* make_future_dataframe(periods): the history dates, then the `periods`
\* days after the last of them.
make_future_dataframe(m, n) ==
    m.history_dates \o [k \in 1..n |-> Max(Range(m.history_dates)) + k]

\* The point estimate is a function of the fitted model and the date; the
\* interval is estimated from random draws.
YhatDrawn(m, d, draw) == [history |-> m.history, mode |-> m.mode, at |-> d + draw]

Yhat(m, d, draw) == [history |-> m.history, mode |-> m.mode, at |-> d]

Draws == {0, 1}

\* m.predict(future), then forecast['sku'] = sku (lines 101-102).
predict(m, future, draw, sku) ==
    [k \in 1..Len(future) |->
        [ds |-> future[k],
         yhat |-> Yhat(m, future[k], draw),
         yhat_lower |-> [around |-> Yhat(m, future[k], draw), draw |-> draw,
                         side |-> "lower"],
         yhat_upper |-> [around |-> Yhat(m, future[k], draw), draw |-> draw,
                         side |-> "upper"],
         sku |-> sku]]

\* forecast[['ds','yhat','yhat_lower','yhat_upper']]
display_columns(rows) ==
    [k \in 1..Len(rows) |-> [ds |-> rows[k].ds, yhat |-> rows[k].yhat,
                             yhat_lower |-> rows[k].yhat_lower,
                             yhat_upper |-> rows[k].yhat_upper]]

----------------------------------------------------------------------------
(* The script *)

\* The namespace and the page at the start of a script run.
Fresh(file) ==
    /\ pc = "load"
    /\ uploaded_file = file
    /\ df = NoDf
    /\ periods = 0
    /\ seasonality_mode = ""
    /\ skus = <<>>
    /\ i = 0
    /\ all_forecasts = <<>>
    /\ out = <<>>
    /\ calls = <<>>
    /\ fits = <<>>
    /\ displayed = <<>>
    /\ download = NoDownload

Init == (\E file \in Uploads : Fresh(file)) /\ ref = NoRef

\* Line 43: uploaded_file.size / (1024 * 1024), a float.  Dividing by a power
\* of two is exact, so the quotient is whole + frac / 2^20.
file_size_floor(size) == [whole |-> size \div BytesPerMB, frac |-> 0]

file_size_of(size) == [whole |-> size \div BytesPerMB, frac |-> size % BytesPerMB]

\* Line 44: file_size > MAX_SIZE_MB
TooLarge(file_size) ==
    \/ file_size.whole > MAX_SIZE_MB
    \/ file_size.whole = MAX_SIZE_MB /\ file_size.frac > 0

\* Lines 49-52: the parser is chosen by the file name's extension.
Parser(file) == IF file.ext = "csv" THEN "read_csv" ELSE "read_excel"

\* Lines 41-57.  The parsed table is any table of T; a malformed file makes
\* the parser raise.
LoadFrom(T) ==
    /\ pc = "load"
    /\ IF uploaded_file.present
       THEN IF TooLarge(file_size_of(uploaded_file.size))
            THEN /\ out' = Append(out, Event("error", "size"))
                 /\ uploaded_file' = NoFile
                 /\ pc' = "validate"
                 /\ UNCHANGED <<df, calls>>
            ELSE /\ calls' = Append(calls, Call(Parser(uploaded_file), "upload"))
                 /\ UNCHANGED uploaded_file
                 /\ \/ /\ df' \in T
                       /\ out' = Append(out, Event("success", "loaded"))
                       /\ pc' = "validate"
                    \/ /\ out' = Append(out, Event("exception", "ParserError"))
                       /\ pc' = "exception"
                       /\ UNCHANGED df
       ELSE /\ calls' = Append(calls, Call("read_csv", "data/datos_grupasa.csv"))
            /\ df' \in T
            /\ out' = Append(out, Event("info", "example"))
            /\ pc' = "validate"
            /\ UNCHANGED uploaded_file
    /\ UNCHANGED <<periods, seasonality_mode, skus, i, all_forecasts, fits,
                   displayed, download, ref>>

Load == LoadFrom(Tables)

\* The columns the loop of lines 63-66 tests: up to and including the first
\* one that is missing.
RECURSIVE Tested(_, _)
Tested(cols, present) ==
    IF cols = <<>> THEN <<>>
    ELSE IF Head(cols) \in present THEN <<Head(cols)>> \o Tested(Tail(cols), present)
    ELSE <<Head(cols)>>

\* Lines 62-66.  With df unbound the first test raises NameError.
Validate ==
    /\ pc = "validate"
    /\ IF ~df.bound
       THEN /\ out' = Append(out, Event("exception", "NameError"))
            /\ pc' = "exception"
            /\ UNCHANGED calls
       ELSE LET tested == Tested(required_cols, df.cols)
                last == tested[Len(tested)]
            IN /\ calls' = calls \o [k \in 1..Len(tested) |-> Call("in_columns", tested[k])]
               /\ IF last \notin df.cols
                  THEN /\ out' = Append(out, Event("error", last))
                       /\ pc' = "stopped"
                  ELSE /\ pc' = "setup"
                       /\ UNCHANGED out
    /\ UNCHANGED <<uploaded_file, df, periods, seasonality_mode, skus, i,
                   all_forecasts, fits, displayed, download, ref>>

\* Lines 71-82: the two widgets are read, the skus listed, the list of
\* forecasts emptied and one tab made per sku.  df['sku'] raises KeyError
\* without that column and st.tabs raises on an empty list of labels.
SetupFrom(P) ==
    /\ pc = "setup"
    /\ periods' \in P
    /\ seasonality_mode' \in SeasonalityModes
    /\ IF "sku" \notin df.cols
       THEN /\ out' = Append(out, Event("exception", "KeyError"))
            /\ pc' = "exception"
            /\ UNCHANGED <<skus, i, all_forecasts>>
       ELSE /\ skus' = Unique(Column(df, "sku"))
            /\ all_forecasts' = <<>>
            /\ IF skus' = <<>>
               THEN /\ out' = Append(out, Event("exception", "StreamlitAPIException"))
                    /\ pc' = "exception"
                    /\ UNCHANGED i
               ELSE /\ pc' = "loop"
                    /\ i' = 1
                    /\ UNCHANGED out
    /\ UNCHANGED <<uploaded_file, df, calls, fits, displayed, download, ref>>

Setup == SetupFrom(PeriodChoices)

\* Lines 84-113: one iteration of the loop, for skus[i].
ForecastSku ==
    /\ pc = "loop"
    /\ i <= Len(skus)
    /\ LET sku == skus[i]
           df_sku == df_sku_of(df, sku)
       IN IF ~({"fecha", "demanda_real"} \subseteq df.cols)
          THEN /\ out' = Append(out, Event("exception", "KeyError"))
               /\ pc' = "exception"
               /\ UNCHANGED <<i, all_forecasts, calls, fits, displayed>>
          ELSE LET hist == ds_y(df_sku)
               IN /\ fits' = Append(fits, [sku |-> sku, hist |-> hist,
                                            mode |-> seasonality_mode])
                  /\ IF FitRaises(hist)
                     THEN /\ calls' = Append(calls, Call("fit", sku))
                          /\ out' = Append(out, Event("exception", "ValueError"))
                          /\ pc' = "exception"
                          /\ UNCHANGED <<i, all_forecasts, displayed>>
                     ELSE \E draw \in Draws :
                          LET m == Fit(hist, seasonality_mode)
                              future == make_future_dataframe(m, periods)
                              forecast == predict(m, future, draw, sku)
                              forecast_display == tail(display_columns(forecast), periods)
                          IN /\ calls' = calls \o <<Call("fit", sku), Call("predict", sku)>>
                             /\ all_forecasts' = Append(all_forecasts, forecast)
                             /\ out' = out \o <<Event("plotly_chart", sku),
                                                 Event("pyplot", sku),
                                                 Event("dataframe", sku)>>
                             /\ displayed' = Append(displayed, forecast_display)
                             /\ i' = i + 1
                             /\ UNCHANGED pc
    /\ UNCHANGED <<uploaded_file, df, periods, seasonality_mode, skus, download, ref>>

\* Lines 118-129, reached when the loop has run out of skus.  pd.concat raises
\* on an empty list.
Export ==
    /\ pc = "loop"
    /\ i > Len(skus)
    /\ IF all_forecasts = <<>>
       THEN /\ out' = Append(out, Event("exception", "ValueError"))
            /\ pc' = "exception"
            /\ UNCHANGED <<calls, download>>
       ELSE LET df_all_forecast == concat(all_forecasts)
            IN /\ calls' = calls \o <<Call("concat", "all"), Call("to_excel", "all")>>
               /\ download' = to_excel(df_all_forecast)
               /\ out' = out \o <<Event("download_button", "forecast_all_skus.xlsx"),
                                   Event("success", "all")>>
               /\ pc' = "done"
    /\ UNCHANGED <<uploaded_file, df, periods, seasonality_mode, skus, i,
                   all_forecasts, fits, displayed, ref>>

RenderEnded == pc \in {"done", "stopped", "exception"}

\* The next render: the script runs again from its first line, in a new
\* namespace and on an empty page, with whatever the uploader now holds.
Rerun ==
    /\ RenderEnded
    /\ \E file \in Uploads :
          /\ pc' = "load"
          /\ uploaded_file' = file
          /\ df' = NoDf
          /\ periods' = 0
          /\ seasonality_mode' = ""
          /\ skus' = <<>>
          /\ i' = 0
          /\ all_forecasts' = <<>>
          /\ out' = <<>>
          /\ calls' = <<>>
          /\ fits' = <<>>
          /\ displayed' = <<>>
          /\ download' = NoDownload
    /\ UNCHANGED ref

Next == Load \/ Validate \/ Setup \/ ForecastSku \/ Export \/ Rerun

Spec == Init /\ [][Next]_vars

----------------------------------------------------------------------------
(* Two renders side by side.  An observer keeps the inputs and the outcome  *)
(* of one ended render of its choice; every later render is compared with  *)
(* it.  The tables are drawn from a smaller set so that the same table is  *)
(* loaded again and again.                                                 *)

Row(s, d) == [sku |-> s, fecha |-> d, demanda_real |-> CHOOSE y \in Demands : TRUE]

RefTables ==
    {[bound |-> TRUE, cols |-> RequiredSet, rows |-> r] :
        r \in {<<Row("A", 1), Row("A", 2), Row("B", 1), Row("B", 2)>>,
               <<Row("B", 2), Row("A", 1), Row("B", 2), Row("A", 2)>>,
               <<Row("A", 1), Row("A", 2), Row("B", 1)>>}}

IdemTables == {t \in Tables : Len(t.rows) <= 2} \cup RefTables

\* The timestamps and point estimates of a list of forecast tables.
PointTables(tables) ==
    [k \in 1..Len(tables) |->
        [r \in 1..Len(tables[k]) |->
            [ds |-> tables[k][r].ds, yhat |-> tables[k][r].yhat,
             sku |-> tables[k][r].sku]]]

LoadIdem == LoadFrom(IdemTables)

Remember ==
    /\ RenderEnded
    /\ ~ref.set
    /\ df \in RefTables
    /\ ref' = [set |-> TRUE, df |-> df, periods |-> periods,
               mode |-> seasonality_mode, tables |-> all_forecasts]
    /\ UNCHANGED <<pc, uploaded_file, df, periods, seasonality_mode, skus, i,
                   all_forecasts, out, calls, fits, displayed, download>>

NextIdem == LoadIdem \/ Validate \/ Setup \/ ForecastSku \/ Export \/ Rerun \/ Remember

SpecIdem == Init /\ [][NextIdem]_vars

----------------------------------------------------------------------------
(* The ends of the horizon's range: the same script with the horizon widget *)
(* at its least values or its greatest, on the smaller set of tables.       *)

SetupEdge == SetupFrom(PeriodChoices \cup {max_value})

NextEdge == LoadIdem \/ Validate \/ SetupEdge \/ ForecastSku \/ Export \/ Rerun

SpecEdge == Init /\ [][NextEdge]_vars

----------------------------------------------------------------------------
(* Properties *)

Has(kind, arg) == \E k \in 1..Len(out) : out[k] = Event(kind, arg)

HasKind(kind) == \E k \in 1..Len(out) : out[k].kind = kind

\* Everything the render has reported as an error, in order: st.error
\* messages and uncaught exceptions.
Errors == SelectSeq(out, LAMBDA e : e.kind \in {"error", "exception"})

CallsOf(fn) == SelectSeq(calls, LAMBDA c : c.fn = fn)

ParsedUpload ==
    \E k \in 1..Len(calls) :
        calls[k].fn \in {"read_csv", "read_excel"} /\ calls[k].arg = "upload"

NothingForecast ==
    /\ fits = <<>>
    /\ all_forecasts = <<>>
    /\ displayed = <<>>
    /\ CallsOf("fit") = <<>>
    /\ ~HasKind("plotly_chart") /\ ~HasKind("pyplot") /\ ~HasKind("dataframe")

NoDownloadOffered == ~download.offered /\ ~HasKind("download_button")

\* C1: an upload of more than MAX_SIZE_MB * 1024 * 1024 bytes gets the size
\* error and no parser is called on it, in that step or later in the render;
\* an upload of exactly that size or less is handed to a parser and gets no
\* size error.
C1_SizeLimit ==
    /\ [](Has("error", "size") => ~ParsedUpload)
    /\ [][(pc = "load" /\ uploaded_file.present) =>
            IF uploaded_file.size > 5 * 1024 * 1024
            THEN /\ out' = <<Event("error", "size")>>
                 /\ calls' = <<>>
                 /\ ~df'.bound
            ELSE /\ ~Has("error", "size")'
                 /\ Len(calls') = 1
                 /\ calls'[1].fn \in {"read_csv", "read_excel"}
                 /\ calls'[1].arg = "upload"]_vars

\* An oversized upload's render has ended: the size error is on the page and
\* no parser was called.
C1_Witness == RenderEnded /\ Has("error", "size") /\ calls = <<>>

\* C2: once a loaded table that lacks a required column has been validated,
\* the render is stopped with an error naming a column the table lacks, and
\* nothing was fitted, charted, tabulated or offered for download.
C2_MissingColumnHalts ==
    (df.bound /\ ~({"sku", "fecha", "demanda_real"} \subseteq df.cols)
        /\ pc \notin {"load", "validate"})
    => /\ pc = "stopped"
       /\ \E c \in {"sku", "fecha", "demanda_real"} \ df.cols : Has("error", c)
       /\ NothingForecast
       /\ NoDownloadOffered

\* A table with sku and demanda_real but no fecha was validated.
C2_Witness ==
    /\ pc = "stopped"
    /\ df.cols = {"sku", "demanda_real"}
    /\ Has("error", "fecha")

EntityIds == {df.rows[k].sku : k \in 1..Len(df.rows)}

Count(x, s) == Cardinality({k \in 1..Len(s) : s[k] = x})

RECURSIVE SumLen(_)
SumLen(ss) == IF ss = <<>> THEN 0 ELSE Len(Head(ss)) + SumLen(Tail(ss))

C4_SizeErrorOnly ==
    Has("error", "size") =>
        /\ Errors = <<Event("error", "size")>>
        /\ CallsOf("in_columns") = <<>>
        /\ CallsOf("read_csv") = <<>>
        /\ NothingForecast
        /\ NoDownloadOffered

\* The observations of sku e, in table order.
Own(e) == SelectSeq(df.rows, LAMBDA r : r.sku = e)

HistoricalDates(e) == {Own(e)[j].fecha : j \in 1..Len(Own(e))}

\* C5: the table shown for an entity has exactly `periods` rows, `periods`
\* being between 7 and 365; they are the last `periods` rows of the entity's
\* forecast table and every one of them is dated after all of the entity's
\* observations.
C5_DisplayedIsFuture ==
    \A k \in 1..Len(displayed) :
        LET T == all_forecasts[k]
            D == displayed[k]
            e == T[1].sku
        IN /\ periods \in 7..365
           /\ Len(D) = periods
           /\ \A j \in 1..periods :
                 LET row == T[Len(T) - periods + j]
                 IN /\ D[j] = [ds |-> row.ds, yhat |-> row.yhat,
                               yhat_lower |-> row.yhat_lower,
                               yhat_upper |-> row.yhat_upper]
                    /\ \A d \in HistoricalDates(e) : D[j].ds > d

\* Two entities were forecast and shown with the horizon at its greatest
\* value.
C5_Witness == Len(displayed) = 2 /\ periods = 365 /\ Len(displayed[2]) = 365

\* The sum of f[x] over the x of S.
RECURSIVE SumOver(_, _)
SumOver(S, f) ==
    IF S = {} THEN 0
    ELSE LET x == CHOOSE y \in S : TRUE IN f[x] + SumOver(S \ {x}, f)

NObs(e) == Len(Own(e))

NDates(e) == Cardinality(HistoricalDates(e))

RowsByObs(e) == NObs(e) + periods

RowsByDate(e) == NDates(e) + periods

\* C6 (as claimed): every forecast table has n + H rows, n the number of the
\* entity's observations, and the export of a completed render has the sum
\* of n + H over the entities.
C6_RowsPerObservation ==
    /\ \A k \in 1..Len(all_forecasts) :
          Len(all_forecasts[k]) = RowsByObs(all_forecasts[k][1].sku)
    /\ pc = "done" => Len(download.rows) = SumOver(EntityIds, [e \in EntityIds |-> RowsByObs(e)])

\* C6 (amended): every forecast table has d + H rows, d the number of
\* distinct dates among the entity's observations, one row per distinct date
\* and H later ones; the export of a completed render has the sum of d + H
\* over the entities.
C6_RowsPerDate ==
    /\ \A k \in 1..Len(all_forecasts) :
          LET T == all_forecasts[k]
              e == T[1].sku
          IN /\ Len(T) = RowsByDate(e)
             /\ {T[r].ds : r \in 1..NDates(e)} = HistoricalDates(e)
             /\ \A r \in (NDates(e) + 1)..Len(T) :
                   \A d \in HistoricalDates(e) : T[r].ds > d
    /\ pc = "done" => Len(download.rows) = SumOver(EntityIds, [e \in EntityIds |-> RowsByDate(e)])

\* A render of two entities has completed, one of them with two
\* observations on the same date.
C6_Witness ==
    /\ pc = "done"
    /\ Cardinality(EntityIds) = 2
    /\ \E e \in EntityIds : NObs(e) > NDates(e)

\* C7: a render that has ended with the same table, horizon and mode as the
\* remembered earlier render has the same forecast tables as that one, by
\* timestamps and point estimates.
C7_SameInputsSameTables ==
    (RenderEnded /\ ref.set /\ ref.df = df /\ ref.periods = periods
        /\ ref.mode = seasonality_mode)
    => PointTables(all_forecasts) = PointTables(ref.tables)

\* Another render of the remembered inputs has completed with two tables;
\* its intervals differ from the remembered ones.
C7_Witness ==
    /\ pc = "done"
    /\ ref.set /\ ref.df = df /\ ref.periods = periods /\ ref.mode = seasonality_mode
    /\ Len(ref.tables) = 2
    /\ Len(all_forecasts) = 2
    /\ all_forecasts # ref.tables

\* C8: every fit is given the observations of its own sku, all of them and
\* no others, and every row of the table it yields is estimated from that
\* fit and tagged with that sku.
C8_NoMixing ==
    /\ \A k \in 1..Len(fits) :
          LET e == fits[k].sku
          IN /\ Len(fits[k].hist) = NObs(e)
             /\ \A j \in 1..NObs(e) :
                   fits[k].hist[j] = [ds |-> Own(e)[j].fecha, y |-> Own(e)[j].demanda_real]
    /\ \A k \in 1..Len(all_forecasts) :
          \A r \in 1..Len(all_forecasts[k]) :
              /\ all_forecasts[k][r].sku = fits[k].sku
              /\ all_forecasts[k][r].yhat.history = fits[k].hist

\* Two entities of one table were fitted and forecast.
C8_Witness == Len(fits) = 2 /\ Len(all_forecasts) = 2 /\ Len(df.rows) > Len(fits[1].hist)

FirstMissing ==
    IF "sku" \notin df.cols THEN "sku"
    ELSE IF "fecha" \notin df.cols THEN "fecha"
    ELSE "demanda_real"

TestedColumns == [k \in 1..Len(CallsOf("in_columns")) |-> CallsOf("in_columns")[k].arg]

\* C9: the columns are tested in the order sku, fecha, demanda_real up to
\* the first one the table lacks; that column is named in the one error of
\* the render and no later column is tested.
C9_FirstMissOnly ==
    (df.bound /\ pc \notin {"load", "validate"}) =>
        IF {"sku", "fecha", "demanda_real"} \subseteq df.cols
        THEN TestedColumns = <<"sku", "fecha", "demanda_real">>
        ELSE /\ pc = "stopped"
             /\ Errors = <<Event("error", FirstMissing)>>
             /\ TestedColumns[Len(TestedColumns)] = FirstMissing
             /\ TestedColumns =
                    SubSeq(<<"sku", "fecha", "demanda_real">>, 1, Len(TestedColumns))

\* A table with neither sku nor fecha was validated.
C9_Witness ==
    /\ pc = "stopped"
    /\ df.cols = {"demanda_real"}
    /\ TestedColumns = <<"sku">>

FirstIndex(e) == Min({k \in 1..Len(df.rows) : df.rows[k].sku = e})

Charted == SelectSeq(out, LAMBDA ev : ev.kind \in {"plotly_chart", "pyplot", "dataframe"})

\* C10: the skus are fitted in the order of their first rows in the table,
\* each one fitted, forecast and rendered before the next is fitted; a fit
\* that fails ends the render with no download and no final notification and
\* nothing further is fitted or rendered in it; the download and the final
\* notification come only when every sku has been fitted.
C10_SequentialAbort ==
    /\ [](/\ \A k \in 1..Len(fits) :
              /\ \A j \in 1..(k - 1) : fits[j].sku # fits[k].sku
              /\ \A e \in EntityIds :
                    FirstIndex(e) < FirstIndex(fits[k].sku)
                        => \E j \in 1..(k - 1) : fits[j].sku = e
          /\ Len(all_forecasts) \in {Len(fits), Len(fits) - 1}
          /\ Len(all_forecasts) < Len(fits) => pc = "exception"
          /\ Len(Charted) = 3 * Len(all_forecasts)
          /\ \A k \in 1..Len(all_forecasts) :
                /\ Charted[3 * k - 2] = Event("plotly_chart", fits[k].sku)
                /\ Charted[3 * k - 1] = Event("pyplot", fits[k].sku)
                /\ Charted[3 * k] = Event("dataframe", fits[k].sku)
          /\ pc = "exception" => NoDownloadOffered /\ ~Has("success", "all")
          /\ (download.offered \/ HasKind("download_button") \/ Has("success", "all"))
                => /\ pc = "done"
                   /\ {fits[k].sku : k \in 1..Len(fits)} = EntityIds
                   /\ Len(all_forecasts) = Cardinality(EntityIds))
    /\ [][pc = "exception" => (pc' = "load" /\ fits' = <<>> /\ out' = <<>>)]_vars

\* The fit of the first of two skus failed and the second was never fitted.
C10_Witness ==
    /\ pc = "exception"
    /\ Len(skus) = 2
    /\ Len(fits) = 1
    /\ Has("exception", "ValueError")

====
